---- MODULE Spec2Model ----
(***************************************************************************)
(* Model of minimal-mvt.py: the AWS Lambda tile handler that turns a       *)
(* /{z}/{x}/{y} address into an EPSG:3857 envelope and a PostGIS MVT query. *)
(*                                                                         *)
(* Python ints are unbounded and Python floats are IEEE-754 binary64, so   *)
(* numbers are modelled as exact dyadic rationals  (-1)^neg * mag * 2^exp  *)
(* whose magnitude is a little-endian limb sequence; a float operation is   *)
(* the exact operation followed by Round53 (round to nearest, ties to      *)
(* even).  Exponents stay far inside the binary64 range for the zooms the  *)
(* model enumerates, so overflow and subnormals do not arise.              *)
(***************************************************************************)
EXTENDS Integers, Sequences, FiniteSets, TLC

(***************************************************************************)
(* Bounds of the model                                                     *)
(***************************************************************************)
MaxZoom == 2        \* zoom strings "-1" .. "2" are enumerated ...
HighZoom == 55      \* ... plus one deep zoom
MaxCoord == 4       \* x / y strings "-1" .. "4"

(***************************************************************************)
(* Unbounded naturals as sequences of limbs in base 2^15, least significant *)
(* limb first.  Canonical form: no most-significant zero limb, zero is << >>.*)
(***************************************************************************)
Base == 2^15

Max(S) == CHOOSE x \in S : \A y \in S : y <= x
Min(S) == CHOOSE x \in S : \A y \in S : x <= y

Limb(a, i) == IF i \in 1..Len(a) THEN a[i] ELSE 0

Trim(a) == LET nz == {i \in 1..Len(a) : a[i] # 0}
           IN IF nz = {} THEN << >> ELSE SubSeq(a, 1, Max(nz))

RECURSIVE NatToLimbs(_)
NatToLimbs(n) == IF n = 0 THEN << >> ELSE <<n % Base>> \o NatToLimbs(n \div Base)

RECURSIVE AddFrom(_, _, _, _)
AddFrom(a, b, i, c) ==
    IF i > Len(a) /\ i > Len(b) THEN (IF c = 0 THEN << >> ELSE <<c>>)
    ELSE LET s == Limb(a, i) + Limb(b, i) + c
         IN <<s % Base>> \o AddFrom(a, b, i + 1, s \div Base)

AddL(a, b) == AddFrom(a, b, 1, 0)

\* a - b for a >= b
RECURSIVE SubFrom(_, _, _, _)
SubFrom(a, b, i, c) ==
    IF i > Len(a) THEN << >>
    ELSE LET d == Limb(a, i) - Limb(b, i) - c
         IN IF d >= 0 THEN <<d>> \o SubFrom(a, b, i + 1, 0)
                      ELSE <<d + Base>> \o SubFrom(a, b, i + 1, 1)

SubL(a, b) == Trim(SubFrom(a, b, 1, 0))

\* a < b on canonical limb sequences
LessL(a, b) ==
    IF Len(a) # Len(b) THEN Len(a) < Len(b)
    ELSE LET diff == {i \in 1..Len(a) : a[i] # b[i]}
         IN diff # {} /\ a[Max(diff)] < b[Max(diff)]

\* a * 2^n
ShlL(a, n) ==
    IF a = << >> THEN << >>
    ELSE LET p == 2^(n % 15)
         IN [j \in 1..(n \div 15) |-> 0] \o
            Trim([i \in 1..(Len(a) + 1) |->
                    ((Limb(a, i) * p) % Base) + ((Limb(a, i - 1) * p) \div Base)])

\* floor(a / 2^n)
ShrL(a, n) ==
    LET q == n \div 15
        r == n % 15
    IN IF Len(a) <= q THEN << >>
       ELSE Trim([i \in 1..(Len(a) - q) |->
                    (Limb(a, i + q) \div 2^r) + ((Limb(a, i + q + 1) % 2^r) * 2^(15 - r))])

RECURSIVE MulDigitFrom(_, _, _, _)
MulDigitFrom(a, d, i, c) ==
    IF i > Len(a) THEN (IF c = 0 THEN << >> ELSE <<c>>)
    ELSE LET s == a[i] * d + c
         IN <<s % Base>> \o MulDigitFrom(a, d, i + 1, s \div Base)

MulDigit(a, d) == Trim(MulDigitFrom(a, d, 1, 0))

RECURSIVE MulFrom(_, _, _)
MulFrom(a, b, j) ==
    IF j > Len(b) THEN << >>
    ELSE AddL(MulDigit(a, b[j]), Trim(<<0>> \o MulFrom(a, b, j + 1)))

MulL(a, b) == MulFrom(a, b, 1)

\* number of significant bits
BitLen(a) ==
    IF a = << >> THEN 0
    ELSE 15 * (Len(a) - 1)
         + (CHOOSE k \in 1..15 : 2^(k - 1) <= a[Len(a)] /\ a[Len(a)] < 2^k)

\* number of zero bits below the lowest set bit, for a # 0
LowZeroBits(a) ==
    LET i0 == Min({i \in 1..Len(a) : a[i] # 0})
    IN 15 * (i0 - 1) + (CHOOSE k \in 0..14 : (a[i0] \div 2^k) % 2 = 1 /\ a[i0] % 2^k = 0)

\* bit k of a, bit 1 being the least significant
Bit(a, k) == (Limb(a, ((k - 1) \div 15) + 1) \div 2^((k - 1) % 15)) % 2

RECURSIVE HexToLimbs(_)
HexToLimbs(h) ==
    IF h = << >> THEN << >>
    ELSE AddL(MulDigit(HexToLimbs(SubSeq(h, 1, Len(h) - 1)), 16), NatToLimbs(h[Len(h)]))

(***************************************************************************)
(* Exact dyadic numbers  (-1)^neg * mag * 2^exp.  Canonical form: mag is   *)
(* odd, or the number is Zero; so equal values are equal records.          *)
(***************************************************************************)
Zero == [neg |-> FALSE, mag |-> << >>, exp |-> 0]

Mk(neg, limbs, exp) ==
    LET t == Trim(limbs)
    IN IF t = << >> THEN Zero
       ELSE [neg |-> neg, mag |-> ShrL(t, LowZeroBits(t)), exp |-> exp + LowZeroBits(t)]

FromInt(n) == IF n < 0 THEN Mk(TRUE, NatToLimbs(-n), 0) ELSE Mk(FALSE, NatToLimbs(n), 0)

Neg(a) == IF a = Zero THEN Zero ELSE [a EXCEPT !.neg = ~a.neg]

Add(a, b) ==
    LET e == IF a.exp < b.exp THEN a.exp ELSE b.exp
        ma == ShlL(a.mag, a.exp - e)
        mb == ShlL(b.mag, b.exp - e)
    IN IF a.neg = b.neg THEN Mk(a.neg, AddL(ma, mb), e)
       ELSE IF LessL(ma, mb) THEN Mk(b.neg, SubL(mb, ma), e)
       ELSE Mk(a.neg, SubL(ma, mb), e)

Sub(a, b) == Add(a, Neg(b))

Mul(a, b) == Mk(a.neg # b.neg, MulL(a.mag, b.mag), a.exp + b.exp)

Less(a, b) == Sub(a, b).neg
Leq(a, b) == ~Less(b, a)

\* 2 ** n; Python gives an exact int for n >= 0 and the float 2.0 ** n for n < 0
Pow2(n) == [neg |-> FALSE, mag |-> <<1>>, exp |-> n]

\* a / 2 ** n is exact in binary floating point: only the exponent changes
DivPow2(a, n) == IF a = Zero THEN Zero ELSE [a EXCEPT !.exp = a.exp - n]

(***************************************************************************)
(* IEEE-754 binary64: a 53-bit significand, round to nearest, ties to even *)
(***************************************************************************)
Precision == 53

Round53(a) ==
    IF BitLen(a.mag) <= Precision THEN a
    ELSE LET d == BitLen(a.mag) - Precision
             kept == ShrL(a.mag, d)
             half == Bit(a.mag, d) = 1
             sticky == LowZeroBits(a.mag) < d - 1
             up == half /\ (sticky \/ Bit(kept, 1) = 1)
         IN Mk(a.neg, IF up THEN AddL(kept, <<1>>) ELSE kept, a.exp + d)

fadd(a, b) == Round53(Add(a, b))
fsub(a, b) == Round53(Sub(a, b))
fmul(a, b) == Round53(Mul(a, b))
float(n) == Round53(FromInt(n))

(***************************************************************************)
(* Python values                                                           *)
(***************************************************************************)
None == [none |-> TRUE]

\* a dict is a function from its keys; d | {k: v}
DictSet(d, k, v) == [j \in DOMAIN d \cup {k} |-> IF j = k THEN v ELSE d[j]]

\* strings that are parsed are sequences of one-character strings
Digits == <<"0", "1", "2", "3", "4", "5", "6", "7", "8", "9">>
IsDigit(c) == \E i \in 1..10 : Digits[i] = c
DigitVal(c) == (CHOOSE i \in 1..10 : Digits[i] = c) - 1
IsSpace(c) == c \in {" ", "\t", "\n"}

RECURSIVE Strip(_)
Strip(s) == IF s = << >> THEN s
            ELSE IF IsSpace(Head(s)) THEN Strip(Tail(s))
            ELSE IF IsSpace(s[Len(s)]) THEN Strip(SubSeq(s, 1, Len(s) - 1))
            ELSE s

RECURSIVE DigitsValue(_)
DigitsValue(s) == IF s = << >> THEN 0
                  ELSE IF s[Len(s)] = "_" THEN DigitsValue(SubSeq(s, 1, Len(s) - 1))
                  ELSE 10 * DigitsValue(SubSeq(s, 1, Len(s) - 1)) + DigitVal(s[Len(s)])

\* int(s) of a str: surrounding whitespace, an optional sign, decimal digits,
\* single underscores between digits; anything else raises ValueError
int(s) ==
    LET t == Strip(s)
        signed == t # << >> /\ Head(t) \in {"+", "-"}
        body == IF signed THEN Tail(t) ELSE t
        wellFormed == /\ body # << >>
                      /\ \A i \in 1..Len(body) : IsDigit(body[i]) \/ body[i] = "_"
                      /\ IsDigit(body[1]) /\ IsDigit(body[Len(body)])
                      /\ \A i \in 1..(Len(body) - 1) : ~(body[i] = "_" /\ body[i + 1] = "_")
    IN IF ~wellFormed THEN [ok |-> FALSE]
       ELSE [ok |-> TRUE,
             val |-> IF signed /\ Head(t) = "-" THEN -DigitsValue(body) ELSE DigitsValue(body)]

\* str(n) of an int, used to enumerate the request strings
RECURSIVE NatStr(_)
NatStr(n) == IF n < 10 THEN <<Digits[n + 1]>> ELSE NatStr(n \div 10) \o <<Digits[(n % 10) + 1]>>
str(n) == IF n < 0 THEN <<"-">> \o NatStr(-n) ELSE NatStr(n)

Raise(e) == [kind |-> "raise", exc |-> e]
Return(v) == [kind |-> "return", value |-> v]

(***************************************************************************)
(* TileRequestHandler                                                      *)
(***************************************************************************)
pathToTile(params) ==
    IF params = None \/ DOMAIN params = {} THEN Return(None)
    ELSE IF "z" \notin DOMAIN params THEN Raise("KeyError")
    ELSE IF ~int(params["z"]).ok THEN Raise("ValueError")
    ELSE IF "x" \notin DOMAIN params THEN Raise("KeyError")
    ELSE IF ~int(params["x"]).ok THEN Raise("ValueError")
    ELSE IF "y" \notin DOMAIN params THEN Raise("KeyError")
    ELSE IF ~int(params["y"]).ok THEN Raise("ValueError")
    ELSE Return([zoom |-> int(params["z"]).val,
                 x |-> int(params["x"]).val,
                 y |-> int(params["y"]).val,
                 format |-> "mvt"])

tileIsValid_gt(tile) ==
    IF ~({"x", "y", "zoom"} \subseteq DOMAIN tile) THEN FALSE
    ELSE IF "format" \notin DOMAIN tile \/ tile["format"] \notin {"pbf", "mvt"} THEN FALSE
    ELSE LET size == Pow2(tile["zoom"])
         IN IF Less(size, FromInt(tile["x"])) \/ Less(size, FromInt(tile["y"])) THEN FALSE
            ELSE IF tile["x"] < 0 \/ tile["y"] < 0 THEN FALSE
            ELSE TRUE

tileIsValid(tile) ==
    IF ~({"x", "y", "zoom"} \subseteq DOMAIN tile) THEN FALSE
    ELSE IF "format" \notin DOMAIN tile \/ tile["format"] \notin {"pbf", "mvt"} THEN FALSE
    ELSE LET size == Pow2(tile["zoom"])
         IN IF Leq(size, FromInt(tile["x"])) \/ Leq(size, FromInt(tile["y"])) THEN FALSE
            ELSE IF tile["x"] < 0 \/ tile["y"] < 0 THEN FALSE
            ELSE TRUE

\* the float literal 20037508.3427892 is the binary64 0x1.31bf8457c1087p+24
worldMercMax == Mk(FALSE, HexToLimbs(<<1, 3, 1, 11, 15, 8, 4, 5, 7, 12, 1, 0, 8, 7>>), -28)
worldMercMin == fmul(float(-1), worldMercMax)
worldMercSize == fsub(worldMercMax, worldMercMin)

\* worldMercSize / 2 ** zoom
tileMercSize(zoom) == DivPow2(worldMercSize, zoom)

tileToEnvelope_gap(tile) ==
    [xmin |-> fadd(worldMercMin, fmul(tileMercSize(tile["zoom"]), float(tile["x"]))),
     xmax |-> fadd(worldMercMin, fmul(tileMercSize(tile["zoom"]), float(tile["x"] + 1))),
     ymin |-> fsub(worldMercMax, fmul(tileMercSize(tile["zoom"]), float(tile["y"] + 1))),
     ymax |-> fsub(worldMercMax, fmul(tileMercSize(tile["zoom"]), float(tile["y"] + 1)))]

tileToEnvelope(tile) ==
    [xmin |-> fadd(worldMercMin, fmul(tileMercSize(tile["zoom"]), float(tile["x"]))),
     xmax |-> fadd(worldMercMin, fmul(tileMercSize(tile["zoom"]), float(tile["x"] + 1))),
     ymin |-> fsub(worldMercMax, fmul(tileMercSize(tile["zoom"]), float(tile["y"] + 1))),
     ymax |-> fsub(worldMercMax, fmul(tileMercSize(tile["zoom"]), float(tile["y"])))]

DENSIFY_FACTOR == 4

\* env['segSize'] = (env['xmax'] - env['xmin']) / DENSIFY_FACTOR, stored in the
\* caller's dict; DENSIFY_FACTOR is a power of two, so the division is exact
envelopeWithSegSize(env) ==
    DictSet(env, "segSize",
            DivPow2(fsub(env["xmax"], env["xmin"]), CHOOSE k \in 0..15 : 2^k = DENSIFY_FACTOR))

\* A formatted text is the sequence of its literal pieces and substituted
\* values; a float stands for its repr, which is one-to-one on binary64.
envelopeToBoundsSQL(env) ==
    LET e == envelopeWithSegSize(env)
    IN <<"ST_Segmentize(ST_MakeEnvelope(", e["xmin"], ", ", e["ymin"], ", ",
         e["xmax"], ", ", e["ymax"], ", 3857),", e["segSize"], ")">>

sqlFormat(tbl) ==
    <<"WITH bounds AS ( SELECT ">> \o tbl["env"] \o <<" AS geom, ">> \o tbl["env"]
    \o <<"::box2d AS b2d ), mvtgeom AS ( SELECT ST_AsMVTGeom(ST_Transform(ST_Force2D(t.",
         tbl["geomColumn"], "), 3857), bounds.b2d) AS geom, ", tbl["attrColumns"],
         " FROM ", tbl["table"], " t, bounds WHERE ST_Intersects(t.", tbl["geomColumn"],
         ", ST_Transform(bounds.geom, ", tbl["srid"],
         ")) ) SELECT ST_AsMVT(mvtgeom.*) FROM mvtgeom">>

\* envelopeToSQL reads the module global TABLE; the result carries the query
\* text, the caller's dict as the call leaves it, and the global as it leaves it
envelopeToSQL_cached(env, table) ==
    LET tbl == IF "env" \in DOMAIN table THEN table
               ELSE DictSet(table, "env", envelopeToBoundsSQL(env))
    IN [sql |-> sqlFormat(tbl), env |-> envelopeWithSegSize(env), TABLE |-> tbl]

envelopeToSQL(env, table) ==
    LET tbl == DictSet(table, "env", envelopeToBoundsSQL(env))
    IN [sql |-> sqlFormat(tbl), env |-> envelopeWithSegSize(env), TABLE |-> table]

\* if not (tile and mvt.tileIsValid(tile)): None is falsy, a tile dict is truthy
rejects_absentOnly(t) == t = None

rejects(t) == ~(t # None /\ tileIsValid(t))

\* The body of the rejecting branch builds {'statusCode': 400, ...,
\* 'body': json.dumps("invalid tile path: %s" % (self.path))}; lambda_handler is a
\* module-level function, the name self is not defined in it, so evaluating the
\* dict raises NameError before anything is returned.
invalidTileResponse == Raise("NameError")

okResponse(blob) == Return([statusCode |-> 200, isBase64Encoded |-> TRUE, body |-> blob])

(***************************************************************************)
(* Requests and configuration enumerated by the model                      *)
(***************************************************************************)
BadStrings == {<< >>, <<"1", ".", "5">>}
ZoomStrings == {str(n) : n \in -1..MaxZoom} \cup {str(HighZoom)} \cup BadStrings
CoordStrings == {str(n) : n \in -1..MaxCoord} \cup BadStrings

ParamsOver(K) ==
    {f \in [K -> ZoomStrings \cup CoordStrings] :
        /\ "z" \in K => f["z"] \in ZoomStrings
        /\ "x" \in K => f["x"] \in CoordStrings
        /\ "y" \in K => f["y"] \in CoordStrings}

\* event['pathParameters']: None, or a dict of strings
PathParameters == {None} \cup UNION {ParamsOver(K) : K \in SUBSET {"z", "x", "y"}}

\* os.environ['table'], os.environ['srid']
TableSpecs == {[table |-> tn, srid |-> sr, geomColumn |-> "geom", attrColumns |-> "id"] :
                 tn \in {"roads"}, sr \in {"4326", "27700"}}

\* outcomes of rdsData.execute_statement(...) and of pbf['records'][0][0]['blobValue']
DbOutcomes == {Return("blob"), Raise("ClientError"), Raise("IndexError")}

(***************************************************************************)
(* State                                                                   *)
(***************************************************************************)
VARIABLES
    pc,        \* position of lambda_handler: idle, parse, validate, envelope, sql, exec, respond, done
    params,    \* event['pathParameters'] of the invocation being handled
    tile,      \* local tile
    verdict,   \* what tileIsValid returned for this invocation: "none" while not called
    env,       \* local env (a dict, mutable)
    sql,       \* local sql
    pbf,       \* local pbf
    result,    \* how the invocation ended: a returned response or a raised exception
    calls,     \* TileRequestHandler methods invoked for this invocation, in order
    TABLE,     \* the module global TABLE
    table0,    \* TABLE as loaded at start-up
    memo       \* history: one earlier invocation's tile and query text

vars == <<pc, params, tile, verdict, env, sql, pbf, result, calls, TABLE, table0, memo>>

Init ==
    /\ pc = "idle"
    /\ params = None
    /\ tile = None
    /\ verdict = "none"
    /\ env = None
    /\ sql = << >>
    /\ pbf = None
    /\ result = None
    /\ calls = << >>
    /\ TABLE \in TableSpecs
    /\ table0 = TABLE
    /\ memo = None

(***************************************************************************)
(* lambda_handler(event, context), one action per statement                *)
(***************************************************************************)
\* the runtime calls the handler; a process handles one invocation at a time
Invoke(p) ==
    /\ pc = "idle"
    /\ pc' = "parse"
    /\ params' = p
    /\ UNCHANGED <<tile, verdict, env, sql, pbf, result, calls, TABLE, table0, memo>>

\* tile = mvt.pathToTile(event['pathParameters'])
PathToTile ==
    /\ pc = "parse"
    /\ calls' = Append(calls, "pathToTile")
    /\ LET r == pathToTile(params)
       IN IF r.kind = "raise"
          THEN /\ result' = r
               /\ pc' = "done"
               /\ UNCHANGED tile
          ELSE /\ tile' = r.value
               /\ pc' = "validate"
               /\ UNCHANGED result
    /\ UNCHANGED <<params, verdict, env, sql, pbf, TABLE, table0, memo>>

\* if not (tile and mvt.tileIsValid(tile)): return {...}
Validate ==
    /\ pc = "validate"
    /\ IF tile = None
       THEN UNCHANGED <<calls, verdict>>
       ELSE /\ calls' = Append(calls, "tileIsValid")
            /\ verdict' = IF tileIsValid(tile) THEN "valid" ELSE "invalid"
    /\ IF rejects(tile)
       THEN /\ result' = invalidTileResponse
            /\ pc' = "done"
       ELSE /\ pc' = "envelope"
            /\ UNCHANGED result
    /\ UNCHANGED <<params, tile, env, sql, pbf, TABLE, table0, memo>>

\* env = mvt.tileToEnvelope(tile)
TileToEnvelope ==
    /\ pc = "envelope"
    /\ calls' = Append(calls, "tileToEnvelope")
    /\ env' = tileToEnvelope(tile)
    /\ pc' = "sql"
    /\ UNCHANGED <<params, tile, verdict, sql, pbf, result, TABLE, table0, memo>>

\* sql = mvt.envelopeToSQL(env)
EnvelopeToSQL ==
    /\ pc = "sql"
    /\ calls' = Append(calls, "envelopeToSQL")
    /\ LET r == envelopeToSQL(env, TABLE)
       IN /\ sql' = r.sql
          /\ env' = r.env
          /\ TABLE' = r.TABLE
    /\ pc' = "exec"
    /\ UNCHANGED <<params, tile, verdict, pbf, result, table0, memo>>

\* pbf = mvt.sqlToPbf(sql): the Data API call succeeds or raises
SqlToPbf(o) ==
    /\ pc = "exec"
    /\ calls' = Append(calls, "sqlToPbf")
    /\ IF o.kind = "raise"
       THEN /\ result' = o
            /\ pc' = "done"
            /\ UNCHANGED pbf
       ELSE /\ pbf' = o.value
            /\ pc' = "respond"
            /\ UNCHANGED result
    /\ UNCHANGED <<params, tile, verdict, env, sql, TABLE, table0, memo>>

\* the two prints, then return {'statusCode': 200, ...}
Respond ==
    /\ pc = "respond"
    /\ result' = okResponse(pbf)
    /\ pc' = "done"
    /\ UNCHANGED <<params, tile, verdict, env, sql, pbf, calls, TABLE, table0, memo>>

\* the invocation is over: its locals are gone, the process and its globals stay
Finish ==
    /\ pc = "done"
    /\ pc' = "idle"
    /\ params' = None
    /\ tile' = None
    /\ verdict' = "none"
    /\ env' = None
    /\ sql' = << >>
    /\ pbf' = None
    /\ result' = None
    /\ calls' = << >>
    /\ UNCHANGED <<TABLE, table0, memo>>

Next ==
    \/ \E p \in PathParameters : Invoke(p)
    \/ PathToTile
    \/ Validate
    \/ TileToEnvelope
    \/ EnvelopeToSQL
    \/ \E o \in DbOutcomes : SqlToPbf(o)
    \/ Respond
    \/ Finish

Spec == Init /\ [][Next]_vars

\* History: remember the tile and query text of one finished invocation
Remember ==
    /\ pc = "done"
    /\ sql # << >>
    /\ memo = None
    /\ memo' = [tile |-> tile, TABLE |-> table0, sql |-> sql]
    /\ UNCHANGED <<pc, params, tile, verdict, env, sql, pbf, result, calls, TABLE, table0>>

NextHist ==
    \/ Next
    \/ Remember

SpecHist == Init /\ [][NextHist]_vars

(***************************************************************************)
(* tileIsValid called directly on tile dicts, complete or not              *)
(***************************************************************************)
Formats == {"mvt", "pbf", "png"}
FullTiles == {[zoom |-> z, x |-> a, y |-> b, format |-> f] :
                z \in (-1..MaxZoom) \cup {HighZoom}, a \in -1..MaxCoord,
                b \in -1..MaxCoord, f \in Formats}
TileDicts == FullTiles
             \cup {[zoom |-> 1, x |-> a, y |-> b] : a \in 0..1, b \in 0..1}
             \cup {[zoom |-> 1, x |-> a, format |-> "mvt"] : a \in 0..1}
             \cup {[x |-> a, y |-> a, format |-> "pbf"] : a \in 0..1}

InitCall ==
    /\ pc = "call"
    /\ params = None
    /\ tile \in TileDicts
    /\ verdict = "none"
    /\ env = None
    /\ sql = << >>
    /\ pbf = None
    /\ result = None
    /\ calls = << >>
    /\ TABLE \in TableSpecs
    /\ table0 = TABLE
    /\ memo = None

CallTileIsValid ==
    /\ pc = "call"
    /\ calls' = Append(calls, "tileIsValid")
    /\ verdict' = IF tileIsValid(tile) THEN "valid" ELSE "invalid"
    /\ pc' = "returned"
    /\ UNCHANGED <<params, tile, env, sql, pbf, result, TABLE, table0, memo>>

NextCall == CallTileIsValid

SpecCall == InitCall /\ [][NextCall]_vars

(***************************************************************************)
(* Properties                                                              *)
(***************************************************************************)
RECURSIVE Halve(_, _)
Halve(v, n) == IF n = 0 THEN v ELSE Halve(v \div 2, n - 1)

\* 0 <= v < 2^z, without forming 2^z
InGrid(v, z) == v >= 0 /\ Halve(v, z) = 0

Supported(t) == {"zoom", "x", "y", "format"} \subseteq DOMAIN t /\ t["format"] \in {"pbf", "mvt"}

\* C1: for a tile with a supported format and zoom >= 0, tileIsValid returns
\* true exactly when 0 <= x < 2^zoom and 0 <= y < 2^zoom.
C1_TileIsValidDecidesGridBounds ==
    (verdict # "none" /\ Supported(tile) /\ tile["zoom"] >= 0)
        => (verdict = "valid" <=> (InGrid(tile["x"], tile["zoom"]) /\ InGrid(tile["y"], tile["zoom"])))

\* zoom 2, x = 4 = grid size, was judged (and rejected)
C1_Witness ==
    /\ verdict = "invalid"
    /\ Supported(tile)
    /\ tile["zoom"] = 2 /\ tile["x"] = 4 /\ tile["y"] = 0

StageNames == {"tileToEnvelope", "envelopeToSQL", "sqlToPbf"}
StageCalls == SelectSeq(calls, LAMBDA c : c \in StageNames)
IsPrefix(a, b) == Len(a) <= Len(b) /\ a = SubSeq(b, 1, Len(a))
Absent(p) == p = None \/ DOMAIN p = {}

\* C2: an invocation whose address is absent or rejected by tileIsValid never
\* calls tileToEnvelope, envelopeToSQL or sqlToPbf; these are called only after
\* tileIsValid returned true, in that order.
C2_ShortCircuit ==
    /\ (pc # "idle" /\ (Absent(params) \/ verdict = "invalid")) => StageCalls = << >>
    /\ StageCalls # << >> =>
          /\ verdict = "valid"
          /\ \E i \in 1..Len(calls) :
                /\ calls[i] = "tileIsValid"
                /\ \A j \in 1..i : calls[j] \notin StageNames
    /\ IsPrefix(StageCalls, <<"tileToEnvelope", "envelopeToSQL", "sqlToPbf">>)

\* a rejected invocation has ended without any stage call
C2_Witness ==
    /\ pc = "done"
    /\ verdict = "invalid"
    /\ calls = <<"pathToTile", "tileIsValid">>

\* C3: an invocation whose z, x, y parse but whose tile fails tileIsValid is
\* answered with a status-400 response.
C3_InvalidAddressGets400 ==
    (pc = "done" /\ verdict = "invalid")
        => (result.kind = "return" /\ result.value.statusCode = 400)

Malformed(p) ==
    /\ ~Absent(p)
    /\ \E k \in {"z", "x", "y"} : k \notin DOMAIN p \/ ~int(p[k]).ok

\* C4: a non-empty mapping with an absent or non-numeric z, x or y ends in a
\* returned error classification, not in an unclassified failure and not in the
\* outcome of an invalid address.
C4_MalformedAddressClassified ==
    (pc = "done" /\ Malformed(params))
        => (result.kind = "return" /\ result # invalidTileResponse)

\* C5: an empty or absent mapping makes pathToTile return None without raising,
\* and the invocation ends in an outcome that is no error: neither a raised
\* failure nor the outcome lambda_handler gives to invalid addresses.
C5_AbsentAddressIsNoError ==
    /\ (pc = "validate" /\ Absent(params)) => tile = None
    /\ (pc = "done" /\ Absent(params))
          => (result.kind = "return" /\ result # invalidTileResponse)

\* C6: for every valid tile the envelope is placed by the formulas of the
\* projector, with xmin < xmax and ymin < ymax, and tile (0, 0, 0) gets the full
\* world extent.
C6_EnvelopeSquareInverted ==
    (verdict = "valid" /\ env # None) =>
        LET side == tileMercSize(tile["zoom"])
        IN /\ env["xmin"] = fadd(worldMercMin, fmul(side, float(tile["x"])))
           /\ env["xmax"] = fadd(worldMercMin, fmul(side, float(tile["x"] + 1)))
           /\ env["ymin"] = fsub(worldMercMax, fmul(side, float(tile["y"] + 1)))
           /\ env["ymax"] = fsub(worldMercMax, fmul(side, float(tile["y"])))
           /\ Less(env["xmin"], env["xmax"])
           /\ Less(env["ymin"], env["ymax"])
           /\ (tile["zoom"] = 0 =>
                 /\ env["xmin"] = worldMercMin /\ env["xmax"] = worldMercMax
                 /\ env["ymin"] = worldMercMin /\ env["ymax"] = worldMercMax)

Neighbour(t, dx, dy) == [t EXCEPT !["x"] = @ + dx, !["y"] = @ + dy]

\* C7: the envelope of a valid tile shares its edges exactly with the envelopes
\* of the valid tiles next to it: xmax with the xmin of (z, x+1, y), ymax with
\* the ymin of (z, x, y-1), and symmetrically on the other two sides.
C7_AdjacentTilesShareEdges ==
    (verdict = "valid" /\ env # None) =>
        /\ tileIsValid(Neighbour(tile, 1, 0))
              => env["xmax"] = tileToEnvelope(Neighbour(tile, 1, 0))["xmin"]
        /\ tileIsValid(Neighbour(tile, 0, -1))
              => env["ymax"] = tileToEnvelope(Neighbour(tile, 0, -1))["ymin"]
        /\ tileIsValid(Neighbour(tile, -1, 0))
              => env["xmin"] = tileToEnvelope(Neighbour(tile, -1, 0))["xmax"]
        /\ tileIsValid(Neighbour(tile, 0, 1))
              => env["ymin"] = tileToEnvelope(Neighbour(tile, 0, 1))["ymax"]

\* an envelope was computed for a tile with valid tiles on all four sides
C7_Witness ==
    /\ verdict = "valid" /\ env # None
    /\ tileIsValid(Neighbour(tile, 1, 0)) /\ tileIsValid(Neighbour(tile, 0, -1))
    /\ tileIsValid(Neighbour(tile, -1, 0)) /\ tileIsValid(Neighbour(tile, 0, 1))

\* C8: the shared TableSpec is never changed by an invocation, and an
\* invocation for the tile of a remembered earlier invocation gets exactly the
\* query text that one got.
C8_QueryDeterministic ==
    /\ TABLE = table0
    /\ (memo # None /\ sql # << >> /\ memo.tile = tile /\ memo.TABLE = TABLE)
          => sql = memo.sql

\* a later invocation has built the query for the remembered tile
C8_Witness ==
    /\ pc = "exec"
    /\ memo # None
    /\ memo.tile = tile
    /\ sql = memo.sql

\* C9: after envelopeToSQL(env) returns, env holds exactly the fields and
\* values tileToEnvelope gave it.
C9_EnvelopeNotMutated ==
    sql # << >> =>
        /\ DOMAIN env = {"xmin", "ymin", "xmax", "ymax"}
        /\ env = tileToEnvelope(tile)

InWorld(lo, hi) ==
    /\ Leq(worldMercMin, lo)
    /\ Less(lo, hi)
    /\ Leq(hi, worldMercMax)

\* C10: a tile that pathToTile parsed and tileIsValid accepted has zoom >= 0,
\* and its envelope lies inside the world extent on both axes.
C10_AcceptedEnvelopeInsideWorld ==
    verdict = "valid" =>
        /\ tile["zoom"] >= 0
        /\ env # None => /\ InWorld(env["xmin"], env["xmax"])
                         /\ InWorld(env["ymin"], env["ymax"])

====
